---- MODULE Spec2Model ----
(***************************************************************************)
(* A model of readdir's listing engine (src/src/output.rs).                *)
(*                                                                         *)
(* Text is modelled as a sequence of byte values (ASCII codes), so that    *)
(* padding, hidden-file detection, lowercasing and number formatting are   *)
(* computed the way the program computes them.                             *)
(*                                                                         *)
(* Three specifications share the variables:                               *)
(*   Spec      - write_dir_contents_to_buffer, called by print_entries on  *)
(*               an already ordered entry list, one loop iteration per     *)
(*               step, followed by print_entries' last newline;            *)
(*   SpecOrder - the filter / sort / reverse part of print_entries;        *)
(*   SpecFmt   - human_readable_filesize on its own.                       *)
(***************************************************************************)
EXTENDS Integers, Sequences, FiniteSets, TLC

VARIABLES
    pc,                 \* where the modelled call is
    entries,            \* Vec<&Path> handed to write_dir_contents_to_buffer (file names)
    flags,              \* the HashMap<char, bool> of display flags
    term,               \* what terminal_size() answers: NoTerminal or a width
    console_w,          \* local console_width
    buffer_width,       \* local buffer_width
    entries_per_line,   \* local entries_per_line
    i,                  \* number of loop iterations started (the next index)
    stat,               \* what the filesystem answered for the entry last visited
    color,              \* the colour currently set on the buffer
    buffer,             \* the writes made to the buffer so far
    raw,                \* SpecOrder: what read_dir enumerated
    pathbufs,           \* SpecOrder: print_entries' pathbufs
    num,                \* SpecFmt: byte count
    base_1000,          \* SpecFmt: base flag
    tie,                \* SpecFmt: direction an exact decimal tie takes in f64
    result              \* SpecFmt: the string returned

vars == <<pc, entries, flags, term, console_w, buffer_width, entries_per_line,
          i, stat, color, buffer, raw, pathbufs, num, base_1000, tie, result>>

layoutVars == <<entries, flags, term, console_w, buffer_width, entries_per_line,
                i, stat, color, buffer>>
orderVars == <<raw, pathbufs>>
fmtVars == <<num, base_1000, tie, result>>

----------------------------------------------------------------------------
(* Bounds of the model *)

MaxEntries == 3
MaxWidth == 7
MaxRaw == 3
MaxBytes == 1200

(* Program constants *)

Separator == 2
SizeColumn == 10
DefaultWidth == 50
Space == 32
Dot == 46
ExecMask == 73

----------------------------------------------------------------------------
(* Small helpers *)

\* cmp::min(x, y) and cmp::max(x, y) of std
cmp_min(a, b) == IF a < b THEN a ELSE b
cmp_max(a, b) == IF a > b THEN a ELSE b

\* All sequences without repetition over S of length at most n
RECURSIVE DistinctSeqs(_, _)
DistinctSeqs(S, n) ==
    IF n = 0 THEN {<<>>}
    ELSE LET shorter == DistinctSeqs(S, n - 1)
             fresh == {p \in shorter \X S :
                          \A k \in 1..Len(p[1]) : p[1][k] # p[2]}
         IN  shorter \cup {Append(p[1], p[2]) : p \in fresh}

----------------------------------------------------------------------------
(* Text *)

\* The decimal digits of a natural number, as `{}` prints an integer
RECURSIVE Digits(_)
Digits(n) ==
    IF n < 10 THEN <<48 + n>> ELSE Append(Digits(n \div 10), 48 + (n % 10))

\* fn right_pad(s: &str, width: usize) -> String
RECURSIVE right_pad(_, _)
right_pad(s, width) ==
    IF Len(s) < width THEN right_pad(Append(s, Space), width) ELSE s

\* The unit ladder ["B", "kB", "MB", "GB", "TB", "PB", "EB", "ZB", "YB"]
units ==
    <<  <<66>>, <<107, 66>>, <<77, 66>>, <<71, 66>>, <<84, 66>>,
        <<80, 66>>, <<69, 66>>, <<90, 66>>, <<89, 66>>  >>

----------------------------------------------------------------------------
(* human_readable_filesize *)

RECURSIVE Pow(_, _)
Pow(b, e) == IF e = 0 THEN 1 ELSE b * Pow(b, e - 1)

\* floor(ln(n) / ln(d)) for n >= 1, exact on the byte counts of the model
RECURSIVE FloorLog(_, _)
FloorLog(n, d) == IF n < d THEN 0 ELSE 1 + FloorLog(n \div d, d)

\* i32::MIN, what `f64::NEG_INFINITY as i32` saturates to
I32Min == 0 - 2147483647 - 1

\* ((num as f64).ln() / delimiter.ln()).floor() as i32, then cmp::min with 8.
\* ln(0) is -inf, and the cast of -inf saturates.
Exponent(n, delimiter) ==
    cmp_min(IF n = 0 THEN I32Min ELSE FloorLog(n, delimiter), Len(units) - 1)

\* `exponent as usize > units.len() - 1`: a negative i32 cast to usize is
\* at least 2^63, so it exceeds every index.
ExceedsLadder(exponent) == exponent < 0 \/ exponent > Len(units) - 1

\* format!("{:.2}", num / delimiter^exponent): the quotient in hundredths,
\* rounded to nearest.  An exact decimal tie goes the way the binary value of
\* the f64 quotient lies, which integers do not tell: tie_up decides it.
Hundredths(n, scale, tie_up) ==
    LET q == (100 * n) \div scale
        r == (100 * n) % scale
    IN  IF 2 * r > scale THEN q + 1
        ELSE IF 2 * r < scale THEN q
        ELSE IF tie_up THEN q + 1 ELSE q

\* Mutant of DisplayF64: the two decimals of "{:.2}" are printed as they are
DisplayTwoDecimals(h) ==
    Digits(h \div 100) \o <<Dot, 48 + ((h % 100) \div 10), 48 + (h % 10)>>

\* The text "{:.2}" is parsed back to an f64 and printed with `{}`, which
\* prints the shortest decimal that reads back: no trailing zeros, and no
\* decimal point for a whole number.
DisplayF64(h) ==
    LET whole == Digits(h \div 100)
        f == h % 100
    IN  IF f = 0 THEN whole
        ELSE IF f % 10 = 0 THEN whole \o <<Dot, 48 + (f \div 10)>>
        ELSE whole \o <<Dot, 48 + (f \div 10), 48 + (f % 10)>>

\* fn human_readable_filesize(num: u64, base_1000: bool)
human_readable_filesize(n, b1000, tie_up) ==
    LET delimiter == IF b1000 THEN 1000 ELSE 1024
        exponent == Exponent(n, delimiter)
    IN  IF ExceedsLadder(exponent)
        THEN Digits(n) \o <<Space, 66>>
        ELSE DisplayF64(Hundredths(n, Pow(delimiter, exponent), tie_up))
                \o <<Space>> \o units[exponent + 1]

----------------------------------------------------------------------------
(* The inputs of write_dir_contents_to_buffer *)

\* The directory listed, "/D/"
DirPath == <<47, 68, 47>>

\* Path::file_name(): what follows the last '/'
RECURSIVE file_name(_)
file_name(path) ==
    IF path = <<>> \/ path[Len(path)] = 47 THEN <<>>
    ELSE Append(file_name(SubSeq(path, 1, Len(path) - 1)), path[Len(path)])

\* File names: "lib", "todo", "notes"
LayoutNames == { <<108, 105, 98>>, <<116, 111, 100, 111>>,
                 <<110, 111, 116, 101, 115>> }

\* The paths of distinct names of the directory, in any order
PathsOf(names, n) ==
    { [k \in 1..Len(l) |-> DirPath \o l[k]] : l \in DistinctSeqs(names, n) }

\* The entries of one directory
EntryLists == PathsOf(LayoutNames, MaxEntries)

\* Option<(Width, Height)>: None, or Some with a u16 width
NoTerminal == [some |-> FALSE, width |-> 0]
Some(w) == [some |-> TRUE, width |-> w]

\* terminal_size() answers None, or Some((Width(w), _)) for a u16 w.
\* 20 is the width of the documented example.
TermAnswers == {NoTerminal} \cup {Some(w) : w \in (0..MaxWidth) \cup {20}}

\* Permission modes 0o644, 0o744, 0o654, 0o645: no execute bit, and each of
\* the three execute bits alone
Modes == {420, 484, 428, 421}

\* File sizes in bytes, read only when sizes are shown
Lens == {1500}

\* The flags write_dir_contents_to_buffer reads are s, h and b; h and b are
\* read only under s, and b only under h.
LayoutFlags ==
    { f \in [a : {FALSE}, u : {FALSE}, c : {FALSE}, r : {FALSE},
             s : BOOLEAN, h : BOOLEAN, b : BOOLEAN] :
        /\ f.b => f.h
        /\ f.h => f.s }

NoStat == [exists |-> FALSE, meta_ok |-> FALSE, is_dir |-> FALSE,
           is_symlink |-> FALSE, mode |-> 0, len |-> 0]

\* What the filesystem can answer for one entry, as one snapshot:
\*   exists      Path::exists()      (follows symlinks; false on any error)
\*   meta_ok     Path::metadata() succeeds (it can fail for an entry that
\*               was there at exists(): the entry was removed in between)
\*   is_dir      Path::is_dir()      (follows symlinks)
\*   is_symlink  Path::is_symlink()  (does not follow)
\*   mode, len   of the metadata     (of the target, for a symlink)
FileStatesFor(showSize) ==
    { st \in [exists : BOOLEAN, meta_ok : BOOLEAN, is_dir : BOOLEAN,
              is_symlink : BOOLEAN, mode : Modes \cup {0},
              len : Lens \cup {0}] :
        /\ st.meta_ok => st.exists
        /\ ~st.exists => (~st.is_dir /\ st.mode = 0 /\ st.len = 0)
        /\ (st.exists /\ ~st.meta_ok) =>
                (~st.is_dir /\ ~st.is_symlink /\ st.mode = 0 /\ st.len = 0)
        /\ st.meta_ok => st.mode \in Modes
        /\ st.meta_ok => (IF showSize THEN st.len \in Lens ELSE st.len = 0) }

GridFileStates == FileStatesFor(FALSE)
SizeFileStates == FileStatesFor(TRUE)
FileStates(showSize) == IF showSize THEN SizeFileStates ELSE GridFileStates

----------------------------------------------------------------------------
(* write_dir_contents_to_buffer *)

RECURSIVE BitAnd(_, _)
BitAnd(x, y) ==
    IF x = 0 \/ y = 0 THEN 0
    ELSE (x % 2) * (y % 2) + 2 * BitAnd(x \div 2, y \div 2)

RECURSIVE MaxLen(_)
MaxLen(es) ==
    IF es = <<>> THEN 0
    ELSE cmp_max(Len(file_name(Head(es))), MaxLen(Tail(es)))

\* entries.iter().map(|e| file_name(e).len()).max().unwrap_or(0)
length_of_longest_entry(es) == MaxLen(es)

\* fn console_width() -> usize
console_width(answer) ==
    IF answer.some THEN answer.width ELSE DefaultWidth

\* Mutant of BufferWidth: the cap by the terminal width is left out
BufferWidthUncapped(longest, cw) == longest + Separator

\* let buffer_width = cmp::min(length_of_longest_entry + 2, console_width)
BufferWidth(longest, cw) == cmp_min(longest + Separator, cw)

\* Mutant of EntriesPerLine: one entry too many per line
EntriesPerLineOneMore(cw, bw) == cmp_max(cw \div bw + 1, 1)

\* let entries_per_line = cmp::max(console_width / buffer_width, 1)
EntriesPerLine(cw, bw) == cmp_max(cw \div bw, 1)

\* Mutant of WrapAfter: the last entry is not exempted
WrapAfterAlsoLast(k, epl, n) == k % epl = epl - 1

\* i % entries_per_line == entries_per_line - 1 && i != entries.len() - 1
WrapAfter(k, epl, n) == k % epl = epl - 1 /\ k # n - 1

\* buffer.set_color travelled in order: white, blue for a directory, cyan
\* for a symlink, green for an execute bit on a non-directory
EntryColor(st) ==
    LET c0 == "white"
        c1 == IF st.is_dir THEN "blue" ELSE c0
        c2 == IF st.is_symlink THEN "cyan" ELSE c1
        c3 == IF BitAnd(st.mode, ExecMask) # 0 /\ ~st.is_dir
              THEN "green" ELSE c2
    IN  c3

\* Mutant of OutStr: always the column width
OutStrShared(filename, bw, n, cw) == right_pad(filename, bw)

\* let outstr = if buffer_width * entries.len() <= console_width { .. }
OutStr(filename, bw, n, cw) ==
    IF bw * n <= cw
    THEN right_pad(filename, Len(filename) + Separator)
    ELSE right_pad(filename, bw)

\* let file_size = ..
FileSize(st, f, tie_up) ==
    IF ~f.h THEN Digits(st.len) \o <<Space, 66>>
    ELSE IF f.b THEN human_readable_filesize(st.len, TRUE, tie_up)
    ELSE human_readable_filesize(st.len, FALSE, tie_up)

\* The rounding of human_readable_filesize is reached only under s and h
TieChoices(f) == IF f.s /\ f.h THEN BOOLEAN ELSE {FALSE}

\* Mutant of Branch: the metadata is read before the existence check
BranchMetadataFirst(st) == IF ~st.meta_ok THEN "err" ELSE "listed"

\* Which way one loop iteration goes: the existence check comes first, the
\* metadata read (and its `?`) after it.
Branch(st) ==
    IF ~st.exists THEN "missing"
    ELSE IF ~st.meta_ok THEN "err"
    ELSE "listed"

\* i < entries.len() - 1, the size mode's line break
SizeBreak(k, n) == k < n - 1

Write(k, text, nl) == [idx |-> k, text |-> text, nl |-> nl]

\* Lines 63-82: the layout plan.  A zero divisor makes the division panic.
LayoutPlan ==
    /\ pc = "start"
    /\ LET cw == console_width(term)
           bw == BufferWidth(length_of_longest_entry(entries), cw)
       IN  /\ console_w' = cw
           /\ buffer_width' = bw
           /\ IF bw = 0
              THEN /\ pc' = "panic"
                   /\ entries_per_line' = 0
              ELSE /\ pc' = "loop"
                   /\ entries_per_line' = EntriesPerLine(cw, bw)
    /\ UNCHANGED <<entries, flags, term, i, stat, color, buffer>>
    /\ UNCHANGED <<orderVars, fmtVars>>

\* Lines 84-150: one iteration of the loop over the entries
WriteEntry ==
    /\ pc = "loop"
    /\ i < Len(entries)
    /\ \E st \in FileStates(flags.s), tie_up \in TieChoices(flags) :
         LET filename == file_name(entries[i + 1])
             n == Len(entries)
             outstr == OutStr(filename, buffer_width, n, console_w)
         IN  /\ stat' = st
             /\ i' = i + 1
             /\ IF Branch(st) = "missing"
                THEN /\ color' = "red"
                     /\ buffer' = Append(buffer,
                            Write(i, right_pad(filename, buffer_width),
                                  WrapAfter(i, entries_per_line, n)))
                     /\ pc' = "loop"
                ELSE IF Branch(st) = "err"
                THEN /\ pc' = "err"
                     /\ UNCHANGED <<color, buffer>>
                ELSE /\ color' = EntryColor(st)
                     /\ pc' = "loop"
                     /\ IF flags.s
                        THEN buffer' = buffer \o
                               << Write(i, right_pad(FileSize(st, flags, tie_up),
                                                     SizeColumn), FALSE),
                                  Write(i, outstr, SizeBreak(i, n)) >>
                        ELSE buffer' = Append(buffer,
                               Write(i, outstr,
                                     WrapAfter(i, entries_per_line, n)))
    /\ UNCHANGED <<entries, flags, term, console_w, buffer_width,
                   entries_per_line>>
    /\ UNCHANGED <<orderVars, fmtVars>>

\* Lines 151-153, then print_entries' lines 49-53: the colour is set back to
\* white, and print_entries writes its last newline
Finish ==
    /\ pc = "loop"
    /\ i = Len(entries)
    /\ color' = "white"
    /\ buffer' = Append(buffer, Write(i, <<>>, TRUE))
    /\ pc' = "done"
    /\ UNCHANGED <<entries, flags, term, console_w, buffer_width,
                   entries_per_line, i, stat>>
    /\ UNCHANGED <<orderVars, fmtVars>>

Init ==
    /\ pc = "start"
    /\ entries \in EntryLists
    /\ flags \in LayoutFlags
    /\ term \in TermAnswers
    /\ console_w = 0
    /\ buffer_width = 0
    /\ entries_per_line = 0
    /\ i = 0
    /\ stat = NoStat
    /\ color = "none"
    /\ buffer = <<>>
    /\ raw = <<>>
    /\ pathbufs = <<>>
    /\ num = 0
    /\ base_1000 = FALSE
    /\ tie = FALSE
    /\ result = <<>>

Next == LayoutPlan \/ WriteEntry \/ Finish

Spec == Init /\ [][Next]_vars

----------------------------------------------------------------------------
(* print_entries: filter, sort, reverse *)

\* File names: "a", "A", "B", "ab", ".h"
OrderNames == { <<97>>, <<65>>, <<66>>, <<97, 98>>, <<Dot, 104>> }

\* What read_dir enumerates: the paths of distinct names, in any order
RawLists == PathsOf(OrderNames, MaxRaw)

\* The flags print_entries itself reads are a, u, c and r
OrderFlags ==
    [a : BOOLEAN, u : BOOLEAN, c : BOOLEAN, r : BOOLEAN,
     s : {FALSE}, h : {FALSE}, b : {FALSE}]

\* str::starts_with('.')
starts_with_dot(name) == Len(name) > 0 /\ name[1] = Dot

\* str::to_lowercase(), on ASCII text
to_lowercase(str) ==
    [k \in 1..Len(str) |->
        IF str[k] >= 65 /\ str[k] <= 90 THEN str[k] + 32 ELSE str[k]]

\* Byte-wise order of two strings, strict
RECURSIVE LexLess(_, _)
LexLess(x, y) ==
    IF y = <<>> THEN FALSE
    ELSE IF x = <<>> THEN TRUE
    ELSE IF Head(x) # Head(y) THEN Head(x) < Head(y)
    ELSE LexLess(Tail(x), Tail(y))

\* What the comparator of the sort compares: the path itself under c (the
\* paths share their parent, so comparing components is comparing bytes), the
\* lowercased path otherwise
SortKey(path, cs) == IF cs THEN path ELSE to_lowercase(path)

\* pathbufs.retain(|e| !file_name(e).starts_with('.'))
Retain(paths) == SelectSeq(paths, LAMBDA e : ~starts_with_dot(file_name(e)))

\* One insertion of a stable sort: x goes behind every element it is not
\* less than
RECURSIVE InsertStable(_, _, _)
InsertStable(sorted, x, cs) ==
    IF sorted = <<>> THEN <<x>>
    ELSE LET last == sorted[Len(sorted)] IN
         IF LexLess(SortKey(x, cs), SortKey(last, cs))
         THEN Append(InsertStable(SubSeq(sorted, 1, Len(sorted) - 1), x, cs),
                     last)
         ELSE Append(sorted, x)

\* slice::sort / slice::sort_by: a stable sort
RECURSIVE StableSort(_, _)
StableSort(paths, cs) ==
    IF paths = <<>> THEN <<>>
    ELSE InsertStable(StableSort(SubSeq(paths, 1, Len(paths) - 1), cs),
                      paths[Len(paths)], cs)

\* Vec::reverse
Reverse(paths) == [k \in 1..Len(paths) |-> paths[Len(paths) + 1 - k]]

\* Mutant of OrderEntries: the reversal is done before the sort
OrderEntriesReverseFirst(paths, f) ==
    LET retained == IF ~f.a THEN Retain(paths) ELSE paths
        reversed == IF f.r THEN Reverse(retained) ELSE retained
    IN  IF ~f.u THEN StableSort(reversed, f.c) ELSE reversed

\* Lines 14-46 of print_entries
OrderEntries(paths, f) ==
    LET retained == IF ~f.a THEN Retain(paths) ELSE paths
        sorted == IF ~f.u THEN StableSort(retained, f.c) ELSE retained
    IN  IF f.r THEN Reverse(sorted) ELSE sorted

InitOrder ==
    /\ pc = "read"
    /\ raw \in RawLists
    /\ flags \in OrderFlags
    /\ pathbufs = <<>>
    /\ entries = <<>>
    /\ term = NoTerminal
    /\ console_w = 0
    /\ buffer_width = 0
    /\ entries_per_line = 0
    /\ i = 0
    /\ stat = NoStat
    /\ color = "none"
    /\ buffer = <<>>
    /\ num = 0
    /\ base_1000 = FALSE
    /\ tie = FALSE
    /\ result = <<>>

\* print_entries up to the call of write_dir_contents_to_buffer: the entries
\* handed over are the file paths in their final order
Order ==
    /\ pc = "read"
    /\ pathbufs' = OrderEntries(raw, flags)
    /\ entries' = pathbufs'
    /\ pc' = "ordered"
    /\ UNCHANGED <<raw, flags, term, console_w, buffer_width,
                   entries_per_line, i, stat, color, buffer>>
    /\ UNCHANGED fmtVars

NextOrder == Order

SpecOrder == InitOrder /\ [][NextOrder]_vars

----------------------------------------------------------------------------
(* human_readable_filesize on its own *)

\* Byte counts: every small one, and counts around the unit boundaries
ByteCounts ==
    (0..MaxBytes) \cup {1500, 2047, 2048, 999994, 999995, 999999, 1000000,
                        1048575, 1048576, 1500000}

InitFmt ==
    /\ pc = "call"
    /\ num \in ByteCounts
    /\ base_1000 \in BOOLEAN
    /\ tie \in BOOLEAN
    /\ result = <<>>
    /\ raw = <<>>
    /\ pathbufs = <<>>
    /\ entries = <<>>
    /\ flags = [a |-> FALSE, u |-> FALSE, c |-> FALSE, r |-> FALSE,
                s |-> FALSE, h |-> FALSE, b |-> FALSE]
    /\ term = NoTerminal
    /\ console_w = 0
    /\ buffer_width = 0
    /\ entries_per_line = 0
    /\ i = 0
    /\ stat = NoStat
    /\ color = "none"
    /\ buffer = <<>>

Format ==
    /\ pc = "call"
    /\ result' = human_readable_filesize(num, base_1000, tie)
    /\ pc' = "returned"
    /\ UNCHANGED <<num, base_1000, tie>>
    /\ UNCHANGED <<layoutVars, orderVars>>

NextFmt == Format

SpecFmt == InitFmt /\ [][NextFmt]_vars

----------------------------------------------------------------------------
(* Vocabulary of the properties *)

\* The plan of the layout has been computed
Planned == pc \in {"loop", "err", "done"}

\* The state right after a loop iteration that wrote its entry
JustWritten == pc = "loop" /\ i > 0

\* The name of the entry last visited
LastName == file_name(entries[i])

NameLens == [k \in 1..Len(entries) |-> Len(file_name(entries[k]))]

\* The longest name length, 0 for no entries
Longest ==
    CHOOSE m \in 0..20 :
        /\ \A k \in 1..Len(entries) : NameLens[k] <= m
        /\ (Len(entries) = 0 /\ m = 0) \/ (\E k \in 1..Len(entries) : NameLens[k] = m)

\* The writes made for the entry at 0-based position k
WritesOf(k) == SelectSeq(buffer, LAMBDA w : w.idx = k)

\* The display category a colour stands for
CategoryOf(c) ==
    CASE c = "red" -> "Missing"
      [] c = "cyan" -> "Symlink"
      [] c = "blue" -> "Directory"
      [] c = "green" -> "Executable"
      [] c = "white" -> "Regular"
      [] OTHER -> "None"

AnyExecuteBit(mode) ==
    \/ (mode \div 64) % 2 = 1
    \/ (mode \div 8) % 2 = 1
    \/ mode % 2 = 1

\* The length of the longest line of the buffer, the unfinished one included
RECURSIVE LongestLine(_, _)
LongestLine(ws, sofar) ==
    IF ws = <<>> THEN sofar
    ELSE LET here == sofar + Len(Head(ws).text) IN
         IF Head(ws).nl
         THEN cmp_max(here, LongestLine(Tail(ws), 0))
         ELSE LongestLine(Tail(ws), here)

----------------------------------------------------------------------------
(* C1 *)

\* C1 (as claimed): the colour category of an entry follows the priority
\* Missing > Symlink > Directory > Executable > Regular.
C1_ColourPriority ==
    JustWritten =>
        CategoryOf(color) =
            IF ~stat.exists THEN "Missing"
            ELSE IF stat.is_symlink THEN "Symlink"
            ELSE IF stat.is_dir THEN "Directory"
            ELSE IF AnyExecuteBit(stat.mode) THEN "Executable"
            ELSE "Regular"

----------------------------------------------------------------------------
(* C2 *)

----------------------------------------------------------------------------
(* C3 *)

\* C3 (as claimed): for every entry list and every terminal width, 0
\* included, the layout never divides by zero, entries-per-row is at least 1,
\* and it is exactly 1 when the terminal is narrower than longest + 2.
C3_NoZeroDivision ==
    /\ pc # "panic"
    /\ Planned =>
          /\ entries_per_line >= 1
          /\ (console_w < Longest + Separator) => entries_per_line = 1

----------------------------------------------------------------------------
(* C4 *)

\* C4 (as claimed): the column width is at least longest + 2, also when a
\* token exceeds the terminal width.
C4_WidthAtLeastLongest ==
    pc # "start" => buffer_width >= Longest + Separator

\* C4 (amended): the column width is the smaller of longest + 2 and the
\* terminal width; it is at least longest + 2 exactly when the terminal is.
C4_WidthIsCappedMin ==
    pc # "start" =>
        /\ buffer_width <= Longest + Separator
        /\ buffer_width <= console_w
        /\ buffer_width = Longest + Separator \/ buffer_width = console_w
        /\ (buffer_width >= Longest + Separator) <=>
                (console_w >= Longest + Separator)

C4_Witness ==
    /\ pc = "loop"
    /\ Len(entries) > 0
    /\ console_w > 0
    /\ console_w < Longest + Separator
    /\ buffer_width = console_w

----------------------------------------------------------------------------
(* C5 *)

\* C5: in grid mode every entry is one write, and a line break follows the
\* token at position k exactly when k + 1 is a multiple of entries-per-row
\* and k is not the last position, for existing and missing entries alike;
\* names of lengths 3, 5, 4 at width 20 break after the second token only.
C5_RowWrap ==
    (Planned /\ ~flags.s) =>
        /\ \A k \in 0..(i - 1) :
              (pc = "err" /\ k = i - 1) \/ Len(WritesOf(k)) = 1
        /\ \A w \in 1..Len(buffer) :
              buffer[w].idx < Len(entries) =>
                  (buffer[w].nl <=>
                      /\ (buffer[w].idx + 1) % entries_per_line = 0
                      /\ buffer[w].idx # Len(entries) - 1)
        /\ (pc = "done" /\ NameLens = <<3, 5, 4>> /\ console_w = 20) =>
              /\ buffer_width = 7
              /\ entries_per_line = 2
              /\ [w \in 1..Len(buffer) |-> buffer[w].nl]
                    = <<FALSE, TRUE, FALSE, TRUE>>

C5_Witness ==
    /\ pc = "done"
    /\ ~flags.s
    /\ NameLens = <<3, 5, 4>>
    /\ console_w = 20
    /\ ~stat.exists
    /\ buffer[2].nl
    /\ Len(buffer[1].text) = 7

----------------------------------------------------------------------------
(* C6 *)

\* C6 (as claimed): with showSize every entry is written on its own line as
\* its size padded to 10 followed by its token padded to the column width,
\* and a line break follows every entry but the last.
C6_SizeLines ==
    (flags.s /\ JustWritten) =>
        LET ws == WritesOf(i - 1) IN
        /\ Len(ws) = 2
        /\ \E t \in BOOLEAN :
              ws[1].text = right_pad(FileSize(stat, flags, t), SizeColumn)
        /\ ~ws[1].nl
        /\ ws[2].text = right_pad(LastName, buffer_width)
        /\ ws[2].nl <=> (i - 1 < Len(entries) - 1)

----------------------------------------------------------------------------
(* C7 *)

\* The widths of all tokens, densely packed
RECURSIVE DenseSum(_)
DenseSum(lens) ==
    IF lens = <<>> THEN 0 ELSE Head(lens) + Separator + DenseSum(Tail(lens))

\* C7 (as claimed): each token is padded to its own length + 2 exactly when
\* the sum of (length + 2) over all tokens fits the terminal width, and to
\* the column width otherwise.
C7_DenseBySum ==
    JustWritten =>
        buffer[Len(buffer)].text =
            IF DenseSum(NameLens) <= console_w
            THEN right_pad(LastName, Len(LastName) + Separator)
            ELSE right_pad(LastName, buffer_width)

\* C7 (amended): each existing token is padded to its own length + 2 exactly
\* when column width times the number of entries fits the terminal width,
\* and to the column width otherwise; a missing token is always padded to the
\* column width.
C7_DenseByColumns ==
    JustWritten =>
        buffer[Len(buffer)].text =
            IF stat.exists /\ buffer_width * Len(entries) <= console_w
            THEN right_pad(LastName, Len(LastName) + Separator)
            ELSE right_pad(LastName, buffer_width)

C7_Witness ==
    /\ JustWritten
    /\ stat.exists
    /\ Len(entries) > 1
    /\ buffer_width * Len(entries) <= console_w
    /\ Len(LastName) + Separator < buffer_width
    /\ Len(buffer[Len(buffer)].text) = Len(LastName) + Separator

----------------------------------------------------------------------------
(* C10 *)

\* C10: in grid mode, when the terminal is at least longest + 2 wide, no line
\* is longer than the terminal, whatever mix of existing and missing entries;
\* when column width times the number of entries fits the terminal, no line
\* break is written between the tokens.
C10_LinesFit ==
    (Planned /\ ~flags.s /\ console_w >= Longest + Separator) =>
        /\ LongestLine(buffer, 0) <= console_w
        /\ (buffer_width * Len(entries) <= console_w) =>
              \A w \in 1..Len(buffer) :
                  buffer[w].idx < Len(entries) => ~buffer[w].nl

C10_Witness ==
    /\ pc = "done"
    /\ ~flags.s
    /\ Len(entries) = 3
    /\ buffer_width * Len(entries) <= console_w
    /\ ~stat.exists
    /\ Len(buffer[1].text) < buffer_width
    /\ LongestLine(buffer, 0) > 2 * buffer_width

----------------------------------------------------------------------------
(* C9 *)

\* x is byte-wise before y
Before(x, y) ==
    \/ Len(x) < Len(y) /\ \A k \in 1..Len(x) : x[k] = y[k]
    \/ \E k \in 1..cmp_min(Len(x), Len(y)) :
          /\ x[k] < y[k]
          /\ \A j \in 1..(k - 1) : x[j] = y[j]

\* The positions of raw that the filter keeps
Kept ==
    { k \in 1..Len(raw) : flags.a \/ raw[k][Len(DirPath) + 1] # Dot }

\* C9: the list handed to the layout is the raw list without the hidden names
\* (unless all), in enumeration order under unsorted and else sorted by path
\* (bytes under caseSensitive, lowercased otherwise, ties in their original
\* order), and reversed as the last step under reverse: undoing the reversal
\* gives the order the same flags give without reverse.
C9_Ordering ==
    pc = "ordered" =>
        LET base == IF flags.r THEN Reverse(pathbufs) ELSE pathbufs
            key(x) == IF flags.c THEN x ELSE to_lowercase(x)
            pos(p) == CHOOSE k \in 1..Len(raw) : raw[k] = base[p]
        IN  /\ entries = pathbufs
            /\ Len(base) = Cardinality(Kept)
            /\ \A p \in 1..Len(base) : \E k \in Kept : raw[k] = base[p]
            /\ \A k \in Kept : \E p \in 1..Len(base) : base[p] = raw[k]
            /\ \A p, q \in 1..Len(base) :
                  p < q =>
                      IF flags.u THEN pos(p) < pos(q)
                      ELSE /\ ~Before(key(base[q]), key(base[p]))
                           /\ key(base[p]) = key(base[q]) => pos(p) < pos(q)

C9_Witness ==
    /\ pc = "ordered"
    /\ flags.r /\ ~flags.u /\ ~flags.c /\ ~flags.a
    /\ Len(raw) = 3
    /\ Len(pathbufs) = 2
    /\ pathbufs[1] # pathbufs[2]
    /\ to_lowercase(pathbufs[1]) = to_lowercase(pathbufs[2])
    /\ raw[1] = pathbufs[2]

----------------------------------------------------------------------------
(* C8 *)

\* The parts of a returned string "<numeral> <unit>"
SpaceAt == CHOOSE k \in 1..Len(result) : result[k] = Space
Numeral == SubSeq(result, 1, SpaceAt - 1)
Unit == SubSeq(result, SpaceAt + 1, Len(result))
HasDot == \E k \in 1..Len(Numeral) : Numeral[k] = Dot
DotAt == IF HasDot THEN CHOOSE k \in 1..Len(Numeral) : Numeral[k] = Dot
         ELSE Len(Numeral) + 1
WholePart == SubSeq(Numeral, 1, DotAt - 1)
FracPart == SubSeq(Numeral, DotAt + 1, Len(Numeral))

IsDigits(str) == \A k \in 1..Len(str) : str[k] >= 48 /\ str[k] <= 57

RECURSIVE DigitsValue(_)
DigitsValue(str) ==
    IF str = <<>> THEN 0
    ELSE 10 * DigitsValue(SubSeq(str, 1, Len(str) - 1)) + (str[Len(str)] - 48)

\* The numeral read as a decimal, in hundredths
NumeralHundredths ==
    100 * DigitsValue(WholePart)
      + (IF Len(FracPart) = 0 THEN 0
         ELSE IF Len(FracPart) = 1 THEN 10 * DigitsValue(FracPart)
         ELSE DigitsValue(FracPart))

Divisor == IF base_1000 THEN 1000 ELSE 1024

\* floor(log_divisor(num)) for the byte counts of the model, num >= 1
ExactExponent ==
    IF num < Divisor THEN 0 ELSE IF num < Divisor * Divisor THEN 1 ELSE 2

ExactScale ==
    IF num < Divisor THEN 1
    ELSE IF num < Divisor * Divisor THEN Divisor ELSE Divisor * Divisor

\* The numeral is num / divisor^exponent rounded to the nearest hundredth
\* (an exact tie either way) and the unit is the one at the exponent
RoundedValueAndUnit ==
    /\ \E k \in 1..Len(result) : result[k] = Space
    /\ IsDigits(WholePart) /\ IsDigits(FracPart)
    /\ Len(WholePart) >= 1
    /\ Len(WholePart) > 1 => WholePart[1] # 48
    /\ Len(FracPart) <= 2
    /\ LET diff == 100 * num - NumeralHundredths * ExactScale IN
       /\ 2 * diff <= ExactScale
       /\ 2 * (0 - diff) <= ExactScale
    /\ Unit = units[ExactExponent + 1]

\* C8 (as claimed): the value is printed with two fractional digits:
\* format(1000, true) = "1.00 kB", format(1024, false) = "1.00 kB",
\* format(1500000, true) = "1.50 MB", and format(0, _) is "0.00 B" or "0 B".
C8_TwoFractionalDigits ==
    pc = "returned" =>
        /\ num = 0 => result \in { <<48, Dot, 48, 48, Space, 66>>,
                                   <<48, Space, 66>> }
        /\ num > 0 => (RoundedValueAndUnit /\ HasDot /\ Len(FracPart) = 2)
        /\ (num = 1000 /\ base_1000) =>
              result = <<49, Dot, 48, 48, Space, 107, 66>>
        /\ (num = 1024 /\ ~base_1000) =>
              result = <<49, Dot, 48, 48, Space, 107, 66>>
        /\ (num = 1500000 /\ base_1000) =>
              result = <<49, Dot, 53, 48, Space, 77, 66>>

\* C8 (amended): the value, rounded to two decimal places, is printed in its
\* shortest form: at most two fractional digits, no trailing zero and no
\* decimal point for a whole number: format(1000, true) = "1 kB",
\* format(1024, false) = "1 kB", format(1500000, true) = "1.5 MB", and
\* format(0, _) = "0 B".
C8_ShortestDecimal ==
    pc = "returned" =>
        /\ num = 0 => result = <<48, Space, 66>>
        /\ num > 0 =>
              /\ RoundedValueAndUnit
              /\ HasDot => (Len(FracPart) >= 1 /\ FracPart[Len(FracPart)] # 48)
        /\ (num = 1000 /\ base_1000) => result = <<49, Space, 107, 66>>
        /\ (num = 1024 /\ ~base_1000) => result = <<49, Space, 107, 66>>
        /\ (num = 1500000 /\ base_1000) =>
              result = <<49, Dot, 53, Space, 77, 66>>

C8_Witness ==
    /\ pc = "returned"
    /\ num = 1500000
    /\ base_1000
    /\ result = <<49, Dot, 53, Space, 77, 66>>

====
